---- MODULE Spec2Model ----
(***************************************************************************)
(* A model of the Worten scraper (products/services/scraper.py).           *)
(*                                                                         *)
(* Text is modelled at character level: a Python str is a sequence of      *)
(* one-character tokens (the token "euro" stands for the single character  *)
(* U+20AC).  Python's None is the one-element sequence <<"None">>, which   *)
(* no character sequence equals.  A Decimal is its canonical decimal text  *)
(* (sign, integer digits without leading zeros, fraction digits without    *)
(* trailing zeros), so two Decimals are equal in Python exactly when their *)
(* model values are equal.                                                 *)
(***************************************************************************)
EXTENDS Integers, Sequences, FiniteSets, TLC

VARIABLES
    \* the scraper instance
    use_selenium,        \* constructor argument
    _driver,             \* NoDriver, or which browser is held
    _driver_failed,
    _cloudflare_passed,
    live,                \* browsers started and not yet quit
    \* the search_product call in progress
    pc,                  \* "idle", "loop" (between two terms), "done"
    query,
    search_terms,
    idx,                 \* index of the next term to try
    attempts,            \* the records _search_with_selenium returned so far
    fetched,             \* the terms a page was fetched for, in order
                         \* (driver.get is the only fetch search_product
                         \* makes)
    result,              \* <<>>, or <<r>> once search_product returned r
    raised,              \* an exception left search_product
    made,                \* every ScrapedProduct built in the last step
    mapped,              \* the JSON item mapped in the last step, if any,
                         \* with the record it was mapped to
    shown,               \* <<>>, or <<page>>: what the browser showed for
                         \* the driver.get of the last step
    \* a pure function checked alone
    arg,                 \* its input
    ret,                 \* what it returned
    phase,               \* "in" before the call, "out" after it
    \* a batch of searches (the command's handle, the views' scrape and
    \* scrape_single)
    endpoint,            \* "none", "handle", "scrape" or "scrape_single"
    bpc,                 \* "idle", "search" (search_product is to be called
                         \* for products[pos]), "searching", "finally",
                         \* "ended" (the endpoint returned), "aborted" (an
                         \* exception left the endpoint)
    products,            \* the Product objects iterated, in order
    pos,                 \* index of the product at hand
    found,
    not_found,
    errors,
    scraped,
    summary,             \* <<>>, or <<s>> once the counts s were reported
    \* two calls of search_product against one fixture
    fixture,             \* what the browser shows: the page of each term in
                         \* turn, and what starting a browser does
    run,                 \* 0 before the first call, 1 and 2 during the calls,
                         \* 3 after the second
    first,               \* <<>>, or <<r>>: what the first call returned
    \* one call of search_product with its waits taken one pass at a time
    step,                \* where the call is: "idle", "get_driver",
                         \* "cloudflare", "get", "page_load", "cookies",
                         \* "cards", "extract", "selectors", "next" (the
                         \* end of a pass of the term loop), "returned"
    tries,               \* passes made of the loop the call is in
    clock                \* half-seconds since _wait_for_page_load started

svars == <<use_selenium, _driver, _driver_failed, _cloudflare_passed, live>>
cvars == <<pc, query, search_terms, idx, attempts, fetched, result, raised,
           made, mapped, shown>>
pvars == <<arg, ret, phase>>
bvars == <<endpoint, bpc, products, pos, found, not_found, errors, scraped,
           summary>>
fvars == <<fixture, run, first>>
wvars == <<step, tries, clock>>
vars == <<svars, cvars, pvars, bvars, fvars, wvars>>

----------------------------------------------------------------------------
(* Bounds of the checked input spaces. *)

MaxPriceLen == 4
MaxTokens == 6

----------------------------------------------------------------------------
(* Python values *)

None == <<"None">>

Digit == {"0", "1", "2", "3", "4", "5", "6", "7", "8", "9"}

Whitespace == {" ", "\n", "\t"}

\* Python truthiness of an optional str: None and "" are falsy.
Truthy(s) == s # None /\ s # <<>>

Has(s, c) == \E i \in 1..Len(s) : s[i] = c

\* str.replace(c, "") for a one-character c
Remove(s, c) == SelectSeq(s, LAMBDA x : x # c)

\* str.replace(c, d) for one-character c and d
Replace(s, c, d) == [i \in 1..Len(s) |-> IF s[i] = c THEN d ELSE s[i]]

RECURSIVE StripLeadingZeros(_)
StripLeadingZeros(ds) ==
    IF ds # <<>> /\ Head(ds) = "0" THEN StripLeadingZeros(Tail(ds)) ELSE ds

RECURSIVE StripTrailingZeros(_)
StripTrailingZeros(ds) ==
    IF ds # <<>> /\ ds[Len(ds)] = "0"
    THEN StripTrailingZeros(SubSeq(ds, 1, Len(ds) - 1))
    ELSE ds

\* The value of a Decimal with the given sign, integer digits and fraction
\* digits, as canonical text.  Zero has no sign (Decimal("-0") == 0).
DecimalValue(neg, ip, fp) ==
    LET i == StripLeadingZeros(ip)
        f == StripTrailingZeros(fp)
    IN  IF i = <<>> /\ f = <<>>
        THEN <<"0">>
        ELSE (IF neg THEN <<"-">> ELSE <<>>)
             \o (IF i = <<>> THEN <<"0">> ELSE i)
             \o (IF f = <<>> THEN <<>> ELSE <<".">> \o f)

InvalidOperation == <<"InvalidOperation">>

\* decimal.Decimal(str) on texts made of sign, digits and ".": an optional
\* sign, then digits with at most one ".", at least one digit.  Anything
\* else raises InvalidOperation.
Decimal(s) ==
    LET signed == s # <<>> /\ s[1] \in {"-", "+"}
        body == IF signed THEN Tail(s) ELSE s
        dots == {i \in 1..Len(body) : body[i] = "."}
        ok == /\ \A i \in 1..Len(body) : body[i] \in Digit \cup {"."}
              /\ Cardinality(dots) <= 1
              /\ \E i \in 1..Len(body) : body[i] \in Digit
        p == IF dots = {} THEN Len(body) + 1 ELSE CHOOSE i \in dots : TRUE
    IN  IF ok
        THEN DecimalValue(signed /\ s[1] = "-",
                          SubSeq(body, 1, p - 1),
                          SubSeq(body, p + 1, Len(body)))
        ELSE InvalidOperation

\* Decimal > 0
IsPositive(d) == d # <<"0">> /\ Head(d) # "-"

\* bool(Decimal)
DecimalTruthy(d) == d # <<"0">>

----------------------------------------------------------------------------
(* WortenScraper._parse_price *)

\* The end of the run of digits of s that starts at i (i - 1 when s[i] is no
\* digit or i is past the end).
DigitRunEnd(s, i) ==
    CHOOSE j \in (i - 1)..Len(s) :
        /\ \A k \in i..j : s[k] \in Digit
        /\ j = Len(s) \/ s[j + 1] \notin Digit

\* re.search(r"(\d+\.?\d*)", s): the leftmost match, greedy; <<>> when there
\* is none (a match is never empty).
SearchNumber(s) ==
    LET starts == {i \in 1..Len(s) : s[i] \in Digit}
    IN  IF starts = {}
        THEN <<>>
        ELSE LET p == CHOOSE i \in starts : \A k \in starts : i <= k
                 e1 == DigitRunEnd(s, p)
                 e2 == IF e1 < Len(s) /\ s[e1 + 1] = "."
                       THEN DigitRunEnd(s, e1 + 2)
                       ELSE e1
             IN  SubSeq(s, p, e2)

\* re.sub(r"[€EUR\s]", "", text)
StripCurrency(text) ==
    SelectSeq(text, LAMBDA c : c \notin {"euro", "E", "U", "R"} \cup Whitespace)

NormalizeSeparators(cleaned) ==
    IF Has(cleaned, ",") /\ Has(cleaned, ".")
    THEN Replace(Remove(cleaned, "."), ",", ".")
    ELSE IF Has(cleaned, ",")
         THEN Replace(cleaned, ",", ".")
         ELSE cleaned

_parse_price(text) ==
    IF ~Truthy(text)
    THEN None
    ELSE LET cleaned == NormalizeSeparators(StripCurrency(text))
             match == SearchNumber(cleaned)
         IN  IF match = <<>>
             THEN None
             ELSE LET value == Decimal(match)
                  IN  IF value # InvalidOperation /\ IsPositive(value)
                      THEN value
                      ELSE None

----------------------------------------------------------------------------
(* The search-term planning of WortenScraper.search_product *)

LowerChar(c) ==
    CASE c = "D" -> "d"
      [] c = "A" -> "a"
      [] c = "S" -> "s"
      [] c = "E" -> "e"
      [] OTHER -> c

\* str.lower()
Lower(w) == [i \in 1..Len(w) |-> LowerChar(w[i])]

\* The end of the run of non-whitespace characters of s that starts at 1.
WordEnd(s) ==
    CHOOSE j \in 0..Len(s) :
        /\ \A k \in 1..j : s[k] \notin Whitespace
        /\ j = Len(s) \/ s[j + 1] \in Whitespace

\* str.split(): the maximal runs of non-whitespace characters, in order.
RECURSIVE Split(_)
Split(s) ==
    IF s = <<>>
    THEN <<>>
    ELSE IF Head(s) \in Whitespace
         THEN Split(Tail(s))
         ELSE <<SubSeq(s, 1, WordEnd(s))>> \o Split(SubSeq(s, WordEnd(s) + 1, Len(s)))

\* sep.join(ws)
RECURSIVE Join(_, _)
Join(ws, sep) ==
    IF ws = <<>>
    THEN <<>>
    ELSE IF Len(ws) = 1
         THEN ws[1]
         ELSE ws[1] \o sep \o Join(Tail(ws), sep)

\* seq[:n]
Take(seq, n) == SubSeq(seq, 1, IF Len(seq) < n THEN Len(seq) ELSE n)

skip_words ==
    { <<"d", "e">>, <<"d", "a">>, <<"d", "o">>, <<"d", "a", "s">>,
      <<"d", "o", "s">>, <<"e">>, <<"o", "u">>, <<"c", "o", "m">>,
      <<"p", "a", "r", "a">>, <<"e", "m">>, <<"u", "m">>, <<"u", "m", "a">> }

IsSignificant(w) == Lower(w) \notin skip_words /\ Len(w) > 2

Significant(name) == SelectSeq(Split(name), IsSignificant)

\* The planner with the full name kept for fewer than 5 words only.
PlanSearchTerms_Under5(name) ==
    IF ~Truthy(name)
    THEN <<>>
    ELSE LET words == Split(name)
             significant == SelectSeq(words, IsSignificant)
         IN  (IF significant # <<>>
              THEN <<Join(Take(significant, 4), <<" ">>)>>
              ELSE <<>>)
             \o (IF Len(words) < 5 THEN <<name>> ELSE <<>>)

\* search_terms as search_product builds it
PlanSearchTerms(name) ==
    IF ~Truthy(name)
    THEN <<>>
    ELSE LET words == Split(name)
             significant == SelectSeq(words, IsSignificant)
         IN  (IF significant # <<>>
              THEN <<Join(Take(significant, 4), <<" ">>)>>
              ELSE <<>>)
             \o (IF Len(words) <= 5 THEN <<name>> ELSE <<>>)

----------------------------------------------------------------------------
(* ScrapedProduct and the embedded-JSON field mapping *)

\* ScrapedProduct with is_available defaulting to True.
ScrapedProductDefaults_Available ==
    [name |-> None, url |-> None, price |-> None, seller |-> None,
     is_available |-> TRUE, error |-> None]

\* The dataclass defaults of ScrapedProduct.
ScrapedProductDefaults ==
    [name |-> None, url |-> None, price |-> None, seller |-> None,
     is_available |-> FALSE, error |-> None]

\* ScrapedProduct(error=msg)
ErrorRecord(msg) == [ScrapedProductDefaults EXCEPT !.error = msg]

\* ScrapedProduct(is_available=False, error=msg)
UnavailableRecord(msg) ==
    [ScrapedProductDefaults EXCEPT !.is_available = FALSE, !.error = msg]

BASE_URL ==
    <<"h", "t", "t", "p", "s", ":", "/", "/", "w", "w", "w", ".",
      "w", "o", "r", "t", "e", "n", ".", "p", "t">>

Worten == <<"W", "o", "r", "t", "e", "n">>

\* str.startswith("http")
StartsWithHttp(s) == Len(s) >= 4 /\ SubSeq(s, 1, 4) = <<"h", "t", "t", "p">>

(* A JSON value is [t, v]: its type and, for a string or a number, its text
   as str() prints it.  A mapping's entries are held beside it: the item
   record below has one field per key path the scraper reads. *)
JAbsent == [t |-> "absent", v |-> <<>>]
JNull == [t |-> "null", v |-> <<>>]
JTrue == [t |-> "bool", v |-> <<"True">>]
JFalse == [t |-> "bool", v |-> <<"False">>]
JDict == [t |-> "dict", v |-> <<>>]
JStr(s) == [t |-> "str", v |-> s]
JNum(s) == [t |-> "num", v |-> s]

\* str(x) of the Python value of a JSON scalar
PyStr(j) == IF j.t = "null" THEN None ELSE j.v

\* bool(x) of what product.get(key) returns (None when the key is absent)
JTruthy(j) ==
    CASE j.t \in {"absent", "null"} -> FALSE
      [] j.t = "str" -> j.v # <<>>
      [] j.t = "num" -> DecimalTruthy(Decimal(j.v))
      [] j.t = "bool" -> j.v = <<"True">>
      [] OTHER -> TRUE

\* The Python value of a JSON string, or None for an absent key or null
PyValue(j) == IF j.t = "str" THEN j.v ELSE None

\* The first element whose Decimal(str(...)) parses, as _get_price_from_json
\* walks its candidates; None when none parses.
RECURSIVE FirstDecimal(_)
FirstDecimal(candidates) ==
    IF candidates = <<>>
    THEN None
    ELSE IF Decimal(PyStr(Head(candidates))) # InvalidOperation
         THEN Decimal(PyStr(Head(candidates)))
         ELSE FirstDecimal(Tail(candidates))

\* The two loops in the other order: the flat fields before the nested ones.
_get_price_from_json_FlatFirst(product) ==
    LET nested ==
            (IF product.price.t = "dict" /\ product.price_value.t # "absent"
             THEN <<product.price_value>> ELSE <<>>)
            \o (IF product.price.t = "dict" /\ product.price_current.t # "absent"
                THEN <<product.price_current>> ELSE <<>>)
            \o (IF product.prices.t = "dict" /\ product.prices_current.t # "absent"
                THEN <<product.prices_current>> ELSE <<>>)
        Flat(value) ==
            IF JTruthy(value) /\ value.t # "dict" THEN <<value>> ELSE <<>>
        flat == Flat(product.currentPrice) \o Flat(product.salePrice)
                \o Flat(product.price)
    IN  FirstDecimal(flat \o nested)

_get_price_from_json(product) ==
    LET nested ==
            (IF product.price.t = "dict" /\ product.price_value.t # "absent"
             THEN <<product.price_value>> ELSE <<>>)
            \o (IF product.price.t = "dict" /\ product.price_current.t # "absent"
                THEN <<product.price_current>> ELSE <<>>)
            \o (IF product.prices.t = "dict" /\ product.prices_current.t # "absent"
                THEN <<product.prices_current>> ELSE <<>>)
        Flat(value) ==
            IF JTruthy(value) /\ value.t # "dict" THEN <<value>> ELSE <<>>
        flat == Flat(product.currentPrice) \o Flat(product.salePrice)
                \o Flat(product.price)
    IN  FirstDecimal(nested \o flat)

_get_seller_from_json(product) ==
    IF product.seller.t = "absent" \/ product.seller.t = "dict"
    THEN IF product.seller.t = "dict" /\ product.seller_name.t # "absent"
         THEN PyValue(product.seller_name)
         ELSE Worten
    ELSE Worten

\* product.get(flag, True), as a truth value
FlagOrTrue(j) == IF j.t = "absent" THEN TRUE ELSE JTruthy(j)

JsonAvailability(price, product) ==
    /\ price # None
    /\ DecimalTruthy(price)
    /\ (FlagOrTrue(product.available) \/ FlagOrTrue(product.inStock))

JsonParseError == <<"Erro ao parsear produto do JSON">>

\* The record with BASE_URL put before every slug, absolute or not.
MappedProduct_AlwaysPrefixed(product, name, slug, price) ==
    IF ~product.is_dict \/ (JTruthy(slug) /\ slug.t # "str")
    THEN ErrorRecord(JsonParseError)
    ELSE [ScrapedProductDefaults EXCEPT
            !.name = name,
            !.url = IF ~JTruthy(slug) THEN None ELSE BASE_URL \o slug.v,
            !.price = price,
            !.seller = _get_seller_from_json(product),
            !.is_available = JsonAvailability(price, product)]

\* The record _parse_product_json builds from what it read of the item.
MappedProduct(product, name, slug, price) ==
    IF ~product.is_dict \/ (JTruthy(slug) /\ slug.t # "str")
    THEN ErrorRecord(JsonParseError)
    ELSE [ScrapedProductDefaults EXCEPT
            !.name = name,
            !.url = IF ~JTruthy(slug)
                    THEN None
                    ELSE IF StartsWithHttp(slug.v)
                         THEN slug.v
                         ELSE BASE_URL \o slug.v,
            !.price = price,
            !.seller = _get_seller_from_json(product),
            !.is_available = JsonAvailability(price, product)]

_parse_product_json(product) ==
    MappedProduct(product,
                  IF JTruthy(product.name)
                  THEN PyValue(product.name)
                  ELSE PyValue(product.title),
                  IF JTruthy(product.slug) THEN product.slug ELSE product.url,
                  _get_price_from_json(product))

----------------------------------------------------------------------------
(* Extraction from a fetched page.

   What the browser shows for one fetch is a record `page`:
     create      what creating a browser does when none is held:
                 "uc" (undetected-chromedriver starts), "selenium" (it fails
                 and plain Selenium starts), "fail" (neither starts)
     cloudflare  _pass_cloudflare's visit of the homepage: "pass",
                 "timeout" or "raise"
     get         driver.get(search_url): "ok", or the exception it raises
     load        what _wait_for_page_load returns
     kind        driver.current_url: "search", "product" (it holds "/p/"),
                 or the exception reading it raises
     source      driver.page_source: "ok", or the exception reading it raises
     no_results  page_source holds "sem resultados" / "nenhum resultado"
     payload     the __NEXT_DATA__ script: "absent", "blank" (the tag with
                 nothing in it), "invalid" (not JSON), "empty" (JSON with no
                 product in it), "untraversable" (JSON in which a value that
                 is walked with .get is not a mapping, e.g. [] or
                 {"props": []}), "search" (item is the first product of a
                 listing), "product" (item is props.product)
     item        the JSON item of the payload
     card        the first product card of the rendered results
     h1, page_prices, page_seller   elements of a rendered product page
     msg         str(e) of the exception raised, if one is *)

NoDriver == "none"

ExcKinds == {"WebDriverException", "Exception"}

ProductUrl == BASE_URL \o <<"/p/", "w">>

\* The first present element's text among the selectors tried in order;
\* None when no selector finds an element.
RECURSIVE FirstPresent(_)
FirstPresent(texts) ==
    IF texts = <<>>
    THEN <<>>
    ELSE IF Head(texts) # None THEN <<Head(texts)>> ELSE FirstPresent(Tail(texts))

_extract_price_card(card) ==
    LET hit == FirstPresent(card.prices)
    IN  IF hit = <<>>
        THEN None
        ELSE _parse_price(Remove(Remove(hit[1], "\n"), " "))

_extract_price_dom(page) ==
    LET hit == FirstPresent(page.page_prices)
    IN  IF hit = <<>> THEN None ELSE _parse_price(hit[1])

SoldBy == "Vendido por "

_extract_seller_card(card) ==
    IF card.seller = None
    THEN Worten
    ELSE LET seller_text == IF card.seller # <<>> /\ card.seller[1] = SoldBy
                            THEN Remove(card.seller, SoldBy)
                            ELSE card.seller
         IN  IF seller_text = <<>> THEN Worten ELSE seller_text

_extract_seller_dom(page) ==
    IF page.page_seller = None \/ page.page_seller = <<>>
    THEN Worten
    ELSE page.page_seller

\* The name loop of the card: the first non-empty text wins; the last text
\* read stays when all are empty; None when no selector finds an element.
RECURSIVE CardName(_, _)
CardName(texts, name) ==
    IF texts = <<>>
    THEN name
    ELSE IF Head(texts) = None
         THEN CardName(Tail(texts), name)
         ELSE IF Head(texts) # <<>>
              THEN Head(texts)
              ELSE CardName(Tail(texts), Head(texts))

NoCardError == <<"Nenhum produto encontrado no DOM">>

_extract_from_search_dom(page) ==
    IF ~page.card.present
    THEN UnavailableRecord(NoCardError)
    ELSE LET href == page.card.href
             price == _extract_price_card(page.card)
         IN  [ScrapedProductDefaults EXCEPT
                !.name = CardName(page.card.names, None),
                !.url = IF Truthy(href) /\ Has(href, "/produtos/")
                        THEN href ELSE None,
                !.price = price,
                !.seller = _extract_seller_card(page.card),
                !.is_available = price # None]

\* Optional[ScrapedProduct]: <<>> is None, <<r>> is the record r.
_extract_from_page_data(page) ==
    IF page.payload \in {"search", "product"}
    THEN <<_parse_product_json(page.item)>>
    ELSE <<>>

\* The JSON item _extract_from_page_data hands to _parse_product_json, if
\* any, with the record that comes back.
ItemParsed(page) ==
    IF page.payload \in {"search", "product"}
    THEN <<[item |-> page.item, rec |-> _parse_product_json(page.item)]>>
    ELSE <<>>

_extract_product_page(page, url) ==
    LET parsed == _extract_from_page_data(page)
        price == _extract_price_dom(page)
    IN  IF parsed # <<>> /\ Truthy(parsed[1].name)
        THEN [parsed[1] EXCEPT !.url = url]
        ELSE [ScrapedProductDefaults EXCEPT
                !.name = page.h1,
                !.url = url,
                !.price = price,
                !.seller = _extract_seller_dom(page),
                !.is_available = price # None]

\* The acceptance test without its URL half.
Acceptable_AvailableOnly(r) == r.is_available

\* result.is_available or result.url
Acceptable(r) == r.is_available \/ Truthy(r.url)

----------------------------------------------------------------------------
(* The browser session and one fetch *)

\* The scraper's fields a fetch reads and writes.
ScraperState ==
    [driver |-> _driver, failed |-> _driver_failed,
     passed |-> _cloudflare_passed, live |-> live]

\* _get_driver without its test of _driver_failed.
_get_driver_Retry(st, page) ==
    IF st.driver # NoDriver
    THEN st
    ELSE IF page.create = "fail"
         THEN [st EXCEPT !.failed = TRUE]
         ELSE [st EXCEPT
                 !.driver = page.create,
                 !.live = @ + 1,
                 !.passed = IF ~@ /\ page.cloudflare = "pass"
                            THEN TRUE ELSE @]

\* _get_driver, with _pass_cloudflare after a browser started.  A browser
\* can only be held where the Selenium imports succeeded.
_get_driver(st, page) ==
    IF st.driver # NoDriver
    THEN st
    ELSE IF st.failed
         THEN st
         ELSE IF page.create = "fail"
              THEN [st EXCEPT !.failed = TRUE]
              ELSE [st EXCEPT
                      !.driver = page.create,
                      !.live = @ + 1,
                      !.passed = IF ~@ /\ page.cloudflare = "pass"
                                 THEN TRUE ELSE @]

Returned(st, rec, others, items, didFetch) ==
    [exc |-> "none", msg |-> <<>>, rec |-> rec, made |-> others \cup {rec},
     items |-> items, st |-> st, fetched |-> didFetch]

Raising(st, kind, msg) ==
    [exc |-> kind, msg |-> msg, rec |-> ScrapedProductDefaults, made |-> {},
     items |-> <<>>, st |-> st, fetched |-> TRUE]

\* str(e)[:100]
ErrorLimit == 100

NoDriverError == <<"WebDriver nao disponivel">>
LoadTimeoutError == <<"Timeout no Cloudflare">>
NoResultsError == <<"Nenhum resultado encontrado">>

\* The try block of _search_with_selenium, from driver.get on: st is the
\* scraper with the browser obtained, parsed what the embedded JSON gives.
FetchAndExtract(st, page, parsed) ==
    IF page.get \in ExcKinds
    THEN Raising(st, page.get, page.msg)
    ELSE IF ~page.load
    THEN Returned(st, ErrorRecord(LoadTimeoutError), {}, <<>>, TRUE)
    ELSE IF page.kind \in ExcKinds
    THEN Raising(st, page.kind, page.msg)
    ELSE IF page.source \in ExcKinds
    THEN Raising(st, page.source, page.msg)
    ELSE IF page.kind = "product"
    THEN Returned(st, _extract_product_page(page, ProductUrl),
                  {parsed[i] : i \in 1..Len(parsed)}, ItemParsed(page), TRUE)
    ELSE IF page.no_results
    THEN Returned(st, UnavailableRecord(NoResultsError), {}, <<>>, TRUE)
    ELSE IF parsed # <<>> /\ Acceptable(parsed[1])
    THEN Returned(st, parsed[1], {}, ItemParsed(page), TRUE)
    ELSE Returned(st, _extract_from_search_dom(page),
                  {parsed[i] : i \in 1..Len(parsed)}, ItemParsed(page), TRUE)

\* The try block of _search_with_selenium
SeleniumTry(st, page) ==
    IF st.driver = NoDriver
    THEN Returned(st, ErrorRecord(NoDriverError), {}, <<>>, FALSE)
    ELSE FetchAndExtract(st, page, _extract_from_page_data(page))

SeleniumBody(st0, page) == SeleniumTry(_get_driver(st0, page), page)

\* The except clauses without the one for Exception.
SeleniumHandlers_NoGeneric(out) ==
    IF out.exc = "WebDriverException"
    THEN LET r == ErrorRecord(<<"Erro WebDriver: ">> \o Take(out.msg, ErrorLimit))
         IN  [out EXCEPT !.exc = "none", !.rec = r, !.made = @ \cup {r},
                         !.st = [@ EXCEPT !.failed = TRUE, !.driver = NoDriver]]
    ELSE out

\* The except clauses, the one for WebDriverException leaving the browser
\* in self._driver.
SeleniumHandlers_KeepDriver(out) ==
    IF out.exc = "WebDriverException"
    THEN LET r == ErrorRecord(<<"Erro WebDriver: ">> \o Take(out.msg, ErrorLimit))
         IN  [out EXCEPT !.exc = "none", !.rec = r, !.made = @ \cup {r},
                         !.st = [@ EXCEPT !.failed = TRUE]]
    ELSE IF out.exc = "Exception"
         THEN LET r == ErrorRecord(<<"Erro Selenium: ">> \o Take(out.msg, ErrorLimit))
              IN  [out EXCEPT !.exc = "none", !.rec = r, !.made = @ \cup {r}]
         ELSE out

\* The except clauses of _search_with_selenium
SeleniumHandlers(out) ==
    IF out.exc = "WebDriverException"
    THEN LET r == ErrorRecord(<<"Erro WebDriver: ">> \o Take(out.msg, ErrorLimit))
         IN  [out EXCEPT !.exc = "none", !.rec = r, !.made = @ \cup {r},
                         !.st = [@ EXCEPT !.failed = TRUE, !.driver = NoDriver]]
    ELSE IF out.exc = "Exception"
         THEN LET r == ErrorRecord(<<"Erro Selenium: ">> \o Take(out.msg, ErrorLimit))
              IN  [out EXCEPT !.exc = "none", !.rec = r, !.made = @ \cup {r}]
         ELSE out

_search_with_selenium(st, page) == SeleniumHandlers(SeleniumBody(st, page))

----------------------------------------------------------------------------
(* The pages and queries the scraper is run on *)

Widget == <<"W", "i", "d", "g", "e", "t">>
WidgetSlug == <<"/", "p", "/", "w", "i", "d", "g", "e", "t", "-", "1">>
AbsoluteSlug == <<"h", "t", "t", "p", ":", "/", "/", "x">>
ACME == <<"A", "C", "M", "E">>

BaseItem ==
    [is_dict |-> TRUE, name |-> JAbsent, title |-> JAbsent, slug |-> JAbsent,
     url |-> JAbsent, price |-> JAbsent, price_value |-> JAbsent,
     price_current |-> JAbsent, prices |-> JAbsent, prices_current |-> JAbsent,
     currentPrice |-> JAbsent, salePrice |-> JAbsent, seller |-> JAbsent,
     seller_name |-> JAbsent, available |-> JAbsent, inStock |-> JAbsent]

\* The price fields of an item: [price, price_value, price_current, currentPrice]
ItemPrices ==
    { <<JAbsent, JAbsent, JAbsent, JAbsent>>,
      <<JDict, JNum(<<"1", "0">>), JAbsent, JAbsent>>,
      <<JDict, JNum(<<"-", "5">>), JAbsent, JAbsent>>,
      <<JDict, JNum(<<"0">>), JAbsent, JAbsent>>,
      <<JDict, JStr(<<"a", "b", "c">>), JStr(<<"4", "9", ".", "9", "0">>), JAbsent>>,
      <<JAbsent, JAbsent, JAbsent, JNum(<<"3">>)>>,
      <<JNum(<<"0">>), JAbsent, JAbsent, JAbsent>> }

\* The stock flags of an item: [available, inStock]
ItemFlags ==
    { <<JAbsent, JAbsent>>, <<JFalse, JAbsent>>, <<JAbsent, JFalse>>,
      <<JFalse, JFalse>>, <<JTrue, JFalse>> }

WidgetItem ==
    [BaseItem EXCEPT
       !.name = JStr(Widget), !.slug = JStr(WidgetSlug), !.price = JDict,
       !.price_current = JStr(<<"4", "9", ".", "9", "0">>), !.seller = JDict,
       !.seller_name = JStr(ACME), !.available = JTrue]

\* Items that differ from one another in one group of fields at a time.
Items ==
    { [BaseItem EXCEPT !.is_dict = FALSE], BaseItem, WidgetItem }
    \cup
    { [BaseItem EXCEPT
         !.name = n,
         !.price = p[1], !.price_value = p[2], !.price_current = p[3],
         !.currentPrice = p[4]] :
        n \in {JAbsent, JStr(Widget)}, p \in ItemPrices }
    \cup
    { [BaseItem EXCEPT
         !.price = JDict, !.price_value = JNum(<<"1", "0">>),
         !.available = f[1], !.inStock = f[2]] : f \in ItemFlags }
    \cup
    { [BaseItem EXCEPT !.slug = sl, !.seller = JDict, !.seller_name = sn] :
        sl \in {JStr(WidgetSlug), JStr(AbsoluteSlug), JNum(<<"5">>)},
        sn \in {JAbsent, JStr(ACME)} }

ProdutosUrl == BASE_URL \o <<"/produtos/", "x">>

NoCard ==
    [present |-> FALSE, href |-> None, names |-> <<None, None, None, None>>,
     prices |-> <<None, None, None>>, seller |-> None]

CardText == <<"C", "a", "r", "d">>

CardNames ==
    { <<None, None, None, None>>, <<CardText, None, None, None>>,
      <<<<>>, None, CardText, None>>, <<None, <<>>, None, None>> }

CardPrices ==
    { <<None, None, None>>, <<<<"1", "2", ",", "5", "0", " ", "euro">>, None, None>>,
      <<<<"f", "r", "e", "e">>, <<"5">>, None>>, <<None, None, <<"0">>>>,
      <<None, <<"-", "5">>, None>> }

GoodCard ==
    [present |-> TRUE, href |-> ProdutosUrl,
     names |-> <<CardText, None, None, None>>,
     prices |-> <<<<"5">>, None, None>>, seller |-> None]

\* Cards that differ from one another in one group of fields at a time.
Cards ==
    { NoCard }
    \cup
    { [GoodCard EXCEPT !.href = h, !.prices = ps] :
        h \in {None, ProdutosUrl, BASE_URL \o <<"/", "x">>}, ps \in CardPrices }
    \cup
    { [GoodCard EXCEPT !.names = ns, !.seller = sl] :
        ns \in CardNames, sl \in {None, <<SoldBy, "X">>} }

\* A message one character longer than what an error record keeps of it.
LongMessage == [i \in 1..(ErrorLimit + 1) |-> "x"]

ExcMessages == { <<>>, <<"b", "o", "o", "m">>, LongMessage }

BasePage ==
    [create |-> "uc", cloudflare |-> "pass", get |-> "ok", load |-> TRUE,
     kind |-> "search", source |-> "ok", no_results |-> FALSE,
     payload |-> "absent", item |-> BaseItem, card |-> NoCard,
     h1 |-> None, page_prices |-> <<None, None>>, page_seller |-> None,
     msg |-> <<>>]

FailPages ==
    { [BasePage EXCEPT !.get = k, !.msg = m] : k \in ExcKinds, m \in ExcMessages }
    \cup { [BasePage EXCEPT !.kind = k, !.msg = m] : k \in ExcKinds, m \in ExcMessages }
    \cup { [BasePage EXCEPT !.source = k, !.msg = m] : k \in ExcKinds, m \in ExcMessages }
    \cup { [BasePage EXCEPT !.load = FALSE], [BasePage EXCEPT !.no_results = TRUE] }

JsonPages ==
    { [BasePage EXCEPT !.payload = "search", !.item = it, !.card = c] :
        it \in Items, c \in {NoCard, GoodCard} }
    \cup
    \* a listing whose markup also holds the words "sem resultados"
    { [BasePage EXCEPT !.no_results = TRUE, !.payload = "search",
                       !.item = WidgetItem, !.card = GoodCard] }

DomPages ==
    { [BasePage EXCEPT !.card = c] : c \in Cards }
    \cup
    { [BasePage EXCEPT !.payload = p, !.card = c] :
        p \in {"blank", "invalid", "empty", "untraversable"},
        c \in {NoCard, GoodCard} }

ProductPages ==
    { [BasePage EXCEPT !.kind = "product", !.payload = p[1], !.item = p[2],
                       !.h1 = h, !.page_prices = pp] :
        p \in { <<"absent", BaseItem>>, <<"product", BaseItem>>,
                <<"product", [BaseItem EXCEPT !.is_dict = FALSE]>>,
                <<"product", WidgetItem>> },
        h \in {None, <<>>, <<"H">>},
        pp \in { <<None, None>>, <<<<"f">>, <<"5">>>> } }
    \cup
    { [BasePage EXCEPT !.kind = "product", !.h1 = <<"H">>,
                       !.page_prices = <<None, <<"1", "9", ".", "9", "9">>>>,
                       !.page_seller = ps] :
        ps \in {None, <<>>, ACME} }

Pages == FailPages \cup JsonPages \cup DomPages \cup ProductPages

\* What starting a browser can do: [create, cloudflare]
Creations ==
    { <<"uc", "pass">>, <<"uc", "timeout">>, <<"uc", "raise">>,
      <<"selenium", "pass">>, <<"fail", "pass">> }

DasAbc == <<"D", "a", "s", " ", "a", "b", "c">>
SixStopWords ==
    <<"d", "e", " ", "d", "a", " ", "d", "o", " ", "e", "m", " ", "o", "u", " ", "e">>

Queries == { None, <<>>, <<" ">>, <<"t", "v">>, DasAbc, SixStopWords }

----------------------------------------------------------------------------
(* Inputs of the pure-function specifications *)

PriceAlphabet == {"0", "1", "5", ",", ".", "-", "euro", "f", " "}

SpecPriceTexts ==
    { <<"1", "2", ",", "5", "0", "euro">>,
      <<"1", ".", "2", "3", "4", ",", "5", "6">>,
      <<"1", "9", ".", "9", "9">>,
      <<"f", "r", "e", "e">>,
      <<"-", "5">>,
      <<>> }

PriceTexts ==
    {None} \cup SpecPriceTexts
    \cup UNION {[1..n -> PriceAlphabet] : n \in 0..MaxPriceLen}

PlanWords ==
    { <<"D", "a", "s">>, <<"t", "v">>, <<"a", "b", "c">>, <<"w", "x", "y", "z">> }

PlanSeparators == { <<" ">>, <<" ", " ">> }

\* A name, with the tokens it was written from.
PlanNames ==
    { [text |-> lead \o Join(ws, sep) \o trail, tokens |-> ws] :
        ws \in UNION {[1..n -> PlanWords] : n \in 0..MaxTokens},
        sep \in PlanSeparators,
        lead \in {<<>>, <<" ">>},
        trail \in {<<>>, <<" ">>} }

----------------------------------------------------------------------------
(* The scraper: search_product and close *)

NoTermError == <<"Nenhum termo de busca informado">>
NotFoundError == <<"Produto nao encontrado na Worten">>

\* The record search_product returns when there is no term to search for.
NoTermRecord == UnavailableRecord(NoTermError)

\* A final record that carries no message.
NotFoundRecord_Bare == ScrapedProductDefaults

\* The record search_product returns after its term loop.
NotFoundRecord == UnavailableRecord(NotFoundError)

ScraperInit ==
    /\ use_selenium \in BOOLEAN
    /\ _driver = NoDriver
    /\ _driver_failed = FALSE
    /\ _cloudflare_passed = FALSE
    /\ live = 0

CallInit ==
    /\ pc = "idle"
    /\ query = None
    /\ search_terms = <<>>
    /\ idx = 0
    /\ attempts = <<>>
    /\ fetched = <<>>
    /\ result = <<>>
    /\ raised = FALSE
    /\ made = {}
    /\ mapped = <<>>
    /\ shown = <<>>

PureIdle ==
    /\ arg = None
    /\ ret = None
    /\ phase = "off"

\* No batch is running.
BatchIdle ==
    /\ endpoint = "none"
    /\ bpc = "idle"
    /\ products = <<>>
    /\ pos = 0
    /\ found = 0
    /\ not_found = 0
    /\ errors = 0
    /\ scraped = 0
    /\ summary = <<>>

\* No fixture is set up.
FixtureIdle ==
    /\ fixture = <<>>
    /\ run = 0
    /\ first = <<>>

\* No call is followed through its waits.
WaitIdle ==
    /\ step = "idle"
    /\ tries = 0
    /\ clock = 0

Init ==
    /\ ScraperInit /\ CallInit /\ PureIdle /\ BatchIdle /\ FixtureIdle
    /\ WaitIdle

\* search_product(q) up to its term loop: the terms are planned; the call
\* returns at once when there is none, or when Selenium is not to be used.
SearchProductOf(q) ==
    /\ LET terms == PlanSearchTerms(q)
           r == IF terms = <<>> THEN NoTermRecord ELSE NotFoundRecord
           loops == terms # <<>> /\ use_selenium /\ ~_driver_failed
       IN  /\ query' = q
           /\ search_terms' = terms
           /\ idx' = IF loops THEN 1 ELSE 0
           /\ pc' = IF loops THEN "loop" ELSE "done"
           /\ result' = IF loops THEN <<>> ELSE <<r>>
           /\ made' = IF loops THEN {} ELSE {r}
    /\ attempts' = <<>>
    /\ fetched' = <<>>
    /\ raised' = FALSE
    /\ mapped' = <<>>
    /\ shown' = <<>>
    /\ UNCHANGED <<svars, pvars, wvars>>

\* A caller calls search_product on some name.
SearchProduct ==
    /\ pc = "idle"
    /\ bpc = "idle"
    /\ run = 0
    /\ \E q \in Queries : SearchProductOf(q)
    /\ UNCHANGED <<bvars, fvars, wvars>>

\* One pass of the term loop: _search_with_selenium(term), then the test
\* of its result.  The browser shows page p for the term; c is what
\* starting a browser does, if one is started.
SearchTermOn(p, c) ==
    /\ pc = "loop"
    /\ \E out \in {_search_with_selenium(
                       ScraperState,
                       [p EXCEPT !.create = c[1], !.cloudflare = c[2]])} :
       \E notFound \in {NotFoundRecord} :
         /\ _driver' = out.st.driver
         /\ _driver_failed' = out.st.failed
         /\ _cloudflare_passed' = out.st.passed
         /\ live' = out.st.live
         /\ fetched' = IF out.fetched
                       THEN Append(fetched, search_terms[idx])
                       ELSE fetched
         /\ mapped' = out.items
         /\ shown' = IF out.fetched THEN <<p>> ELSE <<>>
         /\ IF out.exc # "none"
            THEN /\ raised' = TRUE
                 /\ pc' = "done"
                 /\ result' = <<>>
                 /\ made' = out.made
                 /\ UNCHANGED <<idx, attempts>>
            ELSE /\ raised' = FALSE
                 /\ attempts' = Append(attempts, out.rec)
                 /\ IF Acceptable(out.rec)
                    THEN /\ result' = <<out.rec>>
                         /\ pc' = "done"
                         /\ made' = out.made
                         /\ UNCHANGED idx
                    ELSE IF idx = Len(search_terms)
                         THEN /\ result' = <<notFound>>
                              /\ pc' = "done"
                              /\ made' = out.made \cup {notFound}
                              /\ UNCHANGED idx
                         ELSE /\ idx' = idx + 1
                              /\ made' = out.made
                              /\ UNCHANGED <<result, pc>>
    /\ UNCHANGED <<use_selenium, query, search_terms, pvars, wvars>>

\* What starting a browser can do in the current state: nothing is started
\* when one is held or when starting one failed before.
CreationsNow ==
    IF _driver = NoDriver /\ ~_driver_failed THEN Creations ELSE {<<"uc", "pass">>}

SearchTerm ==
    /\ bpc = "idle"
    /\ run = 0
    /\ \E p \in Pages : \E c \in CreationsNow : SearchTermOn(p, c)
    /\ UNCHANGED <<bvars, fvars, wvars>>

\* The call of search_product is over: its locals are gone.
CallOver ==
    /\ shown' = <<>>
    /\ pc' = "idle"
    /\ query' = None
    /\ search_terms' = <<>>
    /\ idx' = 0
    /\ attempts' = <<>>
    /\ fetched' = <<>>
    /\ result' = <<>>
    /\ raised' = FALSE
    /\ made' = {}
    /\ mapped' = <<>>

\* The caller takes what search_product returned.
Return ==
    /\ pc = "done"
    /\ bpc = "idle"
    /\ run = 0
    /\ CallOver
    /\ UNCHANGED <<svars, pvars, bvars, fvars, wvars>>

\* close() on a scraper that holds a browser
Close ==
    /\ pc = "idle"
    /\ bpc = "idle"
    /\ run = 0
    /\ _driver # NoDriver
    /\ _driver' = NoDriver
    /\ _cloudflare_passed' = FALSE
    /\ live' = live - 1
    /\ UNCHANGED <<use_selenium, _driver_failed, cvars, pvars, bvars, fvars,
                   wvars>>

Next == SearchProduct \/ SearchTerm \/ Return \/ Close

Spec == Init /\ [][Next]_vars

\* The scraper at rest, for the specifications of a pure function alone.
ScraperIdle ==
    /\ use_selenium = TRUE
    /\ _driver = NoDriver
    /\ _driver_failed = FALSE
    /\ _cloudflare_passed = FALSE
    /\ live = 0
    /\ CallInit
    /\ BatchIdle
    /\ FixtureIdle
    /\ WaitIdle

----------------------------------------------------------------------------
(* Specification of _parse_price alone *)

PriceInit ==
    /\ ScraperIdle
    /\ arg \in PriceTexts
    /\ ret = None
    /\ phase = "in"

ParsePrice ==
    /\ phase = "in"
    /\ ret' = _parse_price(arg)
    /\ phase' = "out"
    /\ UNCHANGED <<arg, svars, cvars, bvars, fvars, wvars>>

PriceNext == ParsePrice

SpecPrice == PriceInit /\ [][PriceNext]_vars

(* Specification of the term planner alone *)

PlanInit ==
    /\ ScraperIdle
    /\ arg \in PlanNames
    /\ ret = None
    /\ phase = "in"

Plan ==
    /\ phase = "in"
    /\ ret' = PlanSearchTerms(arg.text)
    /\ phase' = "out"
    /\ UNCHANGED <<arg, svars, cvars, bvars, fvars, wvars>>

PlanNext == Plan

SpecPlan == PlanInit /\ [][PlanNext]_vars

----------------------------------------------------------------------------
(* Specification of two calls of search_product on one scraper, with the
   same name, against a browser that shows the same thing both times *)

\* The pages a fixture is made of.
FixturePages ==
    FailPages
    \cup { [BasePage EXCEPT !.payload = "search", !.item = it] :
             it \in {BaseItem, WidgetItem} }
    \cup { [BasePage EXCEPT !.card = c] : c \in {NoCard, GoodCard} }
    \cup { [BasePage EXCEPT !.kind = "product"] }

\* A fixture for the terms of name q: one page per term, and what starting
\* a browser does.
Fixtures(q) ==
    [pages : [1..Len(PlanSearchTerms(q)) -> FixturePages], create : Creations]

TwiceInit ==
    /\ ScraperInit
    /\ CallInit
    /\ PureIdle
    /\ BatchIdle
    /\ FixtureIdle
    /\ WaitIdle

FirstCall ==
    /\ run = 0
    /\ pc = "idle"
    /\ \E q \in Queries :
         /\ fixture' \in Fixtures(q)
         /\ SearchProductOf(q)
    /\ run' = 1
    /\ UNCHANGED <<first, bvars, wvars>>

\* One pass of the term loop of either call, on the fixture's page for the
\* term.
FixtureTerm ==
    /\ run \in {1, 2}
    /\ pc = "loop"
    /\ SearchTermOn(fixture.pages[idx],
                    IF _driver = NoDriver /\ ~_driver_failed
                    THEN fixture.create ELSE <<"uc", "pass">>)
    /\ UNCHANGED <<bvars, fvars, wvars>>

\* The first call returned; search_product is called again on the same name.
SecondCall ==
    /\ run = 1
    /\ pc = "done"
    /\ ~raised
    /\ first' = result
    /\ run' = 2
    /\ SearchProductOf(query)
    /\ UNCHANGED <<fixture, bvars, wvars>>

TwiceNext == FirstCall \/ FixtureTerm \/ SecondCall

SpecTwice == TwiceInit /\ [][TwiceNext]_vars

----------------------------------------------------------------------------
(* Batches of searches: Command.handle (import_and_scrape), and the views'
   ProductViewSet.scrape and ProductViewSet.scrape_single *)

Now == <<"now">>

\* A Product as the batch reads it from the database.  searched and saved
\* are not fields of the Django model: they record that search_product was
\* called for the product, and that a save() of it succeeded.
NewProduct(name) ==
    [original_name |-> name, worten_name |-> None, worten_url |-> None,
     lowest_price |-> None, seller_name |-> None, is_available |-> FALSE,
     scrape_error |-> None, last_scraped |-> None,
     searched |-> FALSE, saved |-> FALSE]

\* product.worten_name = result.name ... product.last_scraped = timezone.now()
Assigned(product, r) ==
    [product EXCEPT
       !.worten_name = r.name, !.worten_url = r.url, !.lowest_price = r.price,
       !.seller_name = r.seller, !.is_available = r.is_available,
       !.scrape_error = r.error, !.last_scraped = Now]

\* The assignments of the except clause of the loop body; msg is str(e).
Failed(product, msg) ==
    [product EXCEPT !.scrape_error = msg, !.last_scraped = Now]

\* product.save() returned.
Saved(product) == [product EXCEPT !.saved = TRUE]

\* What product.save() does: <<>> when it returns, <<msg>> when it raises
\* an exception e with str(e) = msg.
DatabaseLocked == <<"database is locked">>
SaveOutcomes == { <<>>, <<DatabaseLocked>>, <<LongMessage>> }

\* str(e) of an exception that left search_product.
SearchRaised == <<"search_product raised">>

\* The exception of the try block of a loop body, if any: s1 is what the
\* save() of the try block does.
TryException(s1) == IF raised THEN <<SearchRaised>> ELSE s1

\* The product when the try block is left.
TryProduct == IF raised THEN products[pos] ELSE Assigned(products[pos], result[1])

\* if result.is_available ... elif result.error ... else ...
Tally(r) ==
    IF r.is_available THEN "found"
    ELSE IF Truthy(r.error) THEN "errors" ELSE "not_found"

\* close(), as a function of the scraper's fields
close(st) ==
    IF st.driver # NoDriver
    THEN [st EXCEPT !.driver = NoDriver, !.passed = FALSE, !.live = @ - 1]
    ELSE st

\* scraper = WortenScraper(...)
NewScraper ==
    /\ use_selenium' = TRUE
    /\ _driver' = NoDriver
    /\ _driver_failed' = FALSE
    /\ _cloudflare_passed' = FALSE
    /\ live' = 0

BatchNames == { <<"t", "v">>, DasAbc }

\* The products of a batch: none, one or two.
Batches ==
    { <<>> }
    \cup { <<NewProduct(a)>> : a \in BatchNames }
    \cup { <<NewProduct(a), NewProduct(b)>> : a \in BatchNames, b \in BatchNames }

\* What the browser shows during a batch.
BatchPages ==
    { [BasePage EXCEPT !.get = "WebDriverException", !.msg = <<"b", "o", "o", "m">>],
      [BasePage EXCEPT !.source = "Exception", !.msg = LongMessage],
      [BasePage EXCEPT !.load = FALSE],
      [BasePage EXCEPT !.payload = "search", !.item = WidgetItem],
      [BasePage EXCEPT !.card = GoodCard],
      BasePage,
      [BasePage EXCEPT !.kind = "product"] }

\* The counters and the loop position at the start of a batch over ps.
BatchStart(ps) ==
    /\ products' = ps
    /\ pos' = IF ps = <<>> THEN 0 ELSE 1
    /\ found' = 0
    /\ not_found' = 0
    /\ errors' = 0
    /\ scraped' = 0
    /\ summary' = <<>>

\* Command.handle up to its loop
Handle ==
    /\ bpc = "idle"
    /\ pc = "idle"
    /\ \E ps \in Batches :
         /\ BatchStart(ps)
         /\ bpc' = IF ps = <<>> THEN "finally" ELSE "search"
    /\ endpoint' = "handle"
    /\ NewScraper
    /\ UNCHANGED <<cvars, pvars, fvars, wvars>>

\* ProductViewSet.scrape up to its loop; without a product it answers 400
\* and builds no scraper.
Scrape ==
    /\ bpc = "idle"
    /\ pc = "idle"
    /\ \E ps \in Batches :
         /\ BatchStart(ps)
         /\ bpc' = IF ps = <<>> THEN "ended" ELSE "search"
         /\ IF ps = <<>> THEN UNCHANGED svars ELSE NewScraper
    /\ endpoint' = "scrape"
    /\ UNCHANGED <<cvars, pvars, fvars, wvars>>

\* ProductViewSet.scrape_single up to the call of search_product
ScrapeSingle ==
    /\ bpc = "idle"
    /\ pc = "idle"
    /\ \E a \in BatchNames : BatchStart(<<NewProduct(a)>>)
    /\ bpc' = "search"
    /\ endpoint' = "scrape_single"
    /\ NewScraper
    /\ UNCHANGED <<cvars, pvars, fvars, wvars>>

\* scraper.search_product(query=product.original_name, ean=product.ean)
BatchSearch ==
    /\ bpc = "search"
    /\ pc = "idle"
    /\ SearchProductOf(products[pos].original_name)
    /\ bpc' = "searching"
    /\ products' = [products EXCEPT ![pos].searched = TRUE]
    /\ UNCHANGED <<endpoint, pos, found, not_found, errors, scraped, summary,
                   fvars, wvars>>

\* One pass of the term loop of the search in progress.
BatchTerm ==
    /\ bpc = "searching"
    /\ \E p \in BatchPages : \E c \in CreationsNow : SearchTermOn(p, c)
    /\ UNCHANGED <<bvars, fvars, wvars>>

\* The counters after the if / elif / else on the record r.
Counted(r) ==
    /\ found' = IF Tally(r) = "found" THEN found + 1 ELSE found
    /\ errors' = IF Tally(r) = "errors" THEN errors + 1 ELSE errors
    /\ not_found' = IF Tally(r) = "not_found" THEN not_found + 1 ELSE not_found

\* The for loop goes to the next product, or ends in state after.
NextProduct(after) ==
    /\ pos' = IF pos < Len(products) THEN pos + 1 ELSE pos
    /\ bpc' = IF pos < Len(products) THEN "search" ELSE after

\* The rest of the loop body of Command.handle once search_product is
\* over: s1 is what the save() of the try block does, s2 what the save()
\* of the except clause does.
HandleProduct ==
    /\ endpoint = "handle"
    /\ bpc = "searching"
    /\ pc = "done"
    /\ \E s1 \in SaveOutcomes :
       \E e \in {TryException(s1)} :
       \E s2 \in IF e = <<>> THEN {<<>>} ELSE SaveOutcomes :
       \E obj \in {TryProduct} :
         IF e = <<>>
         THEN /\ products' = [products EXCEPT ![pos] = Saved(obj)]
              /\ Counted(result[1])
              /\ NextProduct("finally")
         ELSE /\ errors' = errors + 1
              /\ UNCHANGED <<found, not_found>>
              /\ IF s2 = <<>>
                 THEN /\ products' = [products EXCEPT
                                        ![pos] = Saved(Failed(obj, e[1]))]
                      /\ NextProduct("finally")
                 ELSE /\ products' = [products EXCEPT ![pos] = Failed(obj, e[1])]
                      /\ bpc' = "unwinding"
                      /\ UNCHANGED pos
    /\ CallOver
    /\ UNCHANGED <<svars, pvars, fvars, endpoint, scraped, summary, wvars>>

\* The finally clause of Command.handle and, unless an exception is on its
\* way out, the report of the counts.
HandleFinally ==
    /\ endpoint = "handle"
    /\ bpc \in {"finally", "unwinding"}
    /\ \E st \in {close(ScraperState)} :
         /\ _driver' = st.driver
         /\ _cloudflare_passed' = st.passed
         /\ live' = st.live
    /\ IF bpc = "finally"
       THEN /\ summary' = <<[found |-> found, not_found |-> not_found,
                             errors |-> errors]>>
            /\ bpc' = "ended"
       ELSE /\ bpc' = "aborted"
            /\ UNCHANGED summary
    /\ UNCHANGED <<use_selenium, _driver_failed, cvars, pvars, fvars, endpoint,
                   products, pos, found, not_found, errors, scraped, wvars>>

\* The rest of the loop body of ProductViewSet.scrape once search_product
\* is over.
ScrapeProduct ==
    /\ endpoint = "scrape"
    /\ bpc = "searching"
    /\ pc = "done"
    /\ \E s1 \in SaveOutcomes :
       \E e \in {TryException(s1)} :
       \E s2 \in IF e = <<>> THEN {<<>>} ELSE SaveOutcomes :
       \E obj \in {TryProduct} :
         IF e = <<>>
         THEN /\ products' = [products EXCEPT ![pos] = Saved(obj)]
              /\ scraped' = scraped + 1
              /\ Counted(result[1])
              /\ NextProduct("respond")
         ELSE /\ UNCHANGED <<found, not_found, scraped>>
              /\ IF s2 = <<>>
                 THEN /\ products' = [products EXCEPT
                                        ![pos] = Saved(Failed(obj, e[1]))]
                      /\ errors' = errors + 1
                      /\ NextProduct("respond")
                 ELSE /\ products' = [products EXCEPT ![pos] = Failed(obj, e[1])]
                      /\ bpc' = "aborted"
                      /\ UNCHANGED <<pos, errors>>
    /\ CallOver
    /\ UNCHANGED <<svars, pvars, fvars, endpoint, summary, wvars>>

\* The end of ProductViewSet.scrape: the spreadsheet is synchronised (its
\* failure is logged, not raised) and the counts are answered.
ScrapeResponse ==
    /\ endpoint = "scrape"
    /\ bpc = "respond"
    /\ summary' = <<[scraped |-> scraped, found |-> found,
                     not_found |-> not_found, errors |-> errors]>>
    /\ bpc' = "ended"
    /\ UNCHANGED <<svars, cvars, pvars, fvars, endpoint, products, pos, found,
                   not_found, errors, scraped, wvars>>

\* The rest of ProductViewSet.scrape_single once search_product is over:
\* the product is answered, or an error 500 when the try block raised.
ScrapeSingleProduct ==
    /\ endpoint = "scrape_single"
    /\ bpc = "searching"
    /\ pc = "done"
    /\ \E s1 \in SaveOutcomes :
       \E e \in {TryException(s1)} :
       \E obj \in {TryProduct} :
         products' = [products EXCEPT
                        ![pos] = IF e = <<>> THEN Saved(obj) ELSE obj]
    /\ bpc' = "ended"
    /\ CallOver
    /\ UNCHANGED <<svars, pvars, fvars, endpoint, pos, found, not_found,
                   errors, scraped, summary, wvars>>

BatchInit == ScraperIdle /\ PureIdle

BatchNext ==
    \/ Handle
    \/ Scrape
    \/ ScrapeSingle
    \/ BatchSearch
    \/ BatchTerm
    \/ HandleProduct
    \/ HandleFinally
    \/ ScrapeProduct
    \/ ScrapeResponse
    \/ ScrapeSingleProduct

SpecBatch == BatchInit /\ [][BatchNext]_vars

----------------------------------------------------------------------------
(* Specification of _parse_product_json alone *)

\* Items that differ in their price fields only.
PriceItems ==
    { [BaseItem EXCEPT
         !.price = p, !.price_value = pv, !.price_current = pc_,
         !.prices = ps, !.prices_current = psc,
         !.currentPrice = cp, !.salePrice = sp] :
        p \in {JAbsent, JDict, JNum(<<"0">>), JNum(<<"3">>), JStr(<<"a", "b", "c">>)},
        pv \in {JAbsent, JNum(<<"1", "0">>), JNum(<<"0">>), JStr(<<"a", "b", "c">>)},
        pc_ \in {JAbsent, JNull, JStr(<<"4", "9", ".", "9", "0">>)},
        ps \in {JAbsent, JDict},
        psc \in {JAbsent, JNum(<<"7">>)},
        cp \in {JAbsent, JNum(<<"0">>), JNum(<<"3">>), JStr(<<>>)},
        sp \in {JAbsent, JNum(<<"5">>), JStr(<<"a", "b", "c">>)} }

\* Items that differ in where the address and the seller are.
LinkItems ==
    { [BaseItem EXCEPT
         !.slug = sl, !.url = u, !.seller = s, !.seller_name = sn] :
        sl \in {JAbsent, JStr(<<>>), JStr(WidgetSlug)},
        u \in {JAbsent, JStr(WidgetSlug), JStr(AbsoluteSlug)},
        s \in {JAbsent, JNull, JStr(ACME), JDict},
        sn \in {JAbsent, JNull, JStr(ACME)} }

JsonItems == Items \cup PriceItems \cup LinkItems

JsonInit ==
    /\ ScraperIdle
    /\ arg \in JsonItems
    /\ ret = None
    /\ phase = "in"

ParseJson ==
    /\ phase = "in"
    /\ ret' = _parse_product_json(arg)
    /\ phase' = "out"
    /\ UNCHANGED <<arg, svars, cvars, bvars, fvars, wvars>>

JsonNext == ParseJson

SpecJson == JsonInit /\ [][JsonNext]_vars

----------------------------------------------------------------------------
(* Specification of _extract_from_page_data alone *)

PageDataInit ==
    /\ ScraperIdle
    /\ arg \in JsonPages \cup DomPages \cup ProductPages
    /\ ret = None
    /\ phase = "in"

ExtractPageData ==
    /\ phase = "in"
    /\ ret' = _extract_from_page_data(arg)
    /\ phase' = "out"
    /\ UNCHANGED <<arg, svars, cvars, bvars, fvars, wvars>>

PageDataNext == ExtractPageData

SpecPageData == PageDataInit /\ [][PageDataNext]_vars

----------------------------------------------------------------------------
(* The card selectors of the two search-result extractors.

   `matches` holds, for each card selector in the order of the loop, the
   element the selector finds, NoCard (or NoHtmlCard) when it finds none.
   An element of the parsed HTML is
     href    href of its first a[href*="/p/"], else of its first a;
             None when it has no link or the link has no href
     names   the texts of its h3, h2 and [class*="name"], None when missing
     prices  the texts of its [class*="price"] and span, None when missing
     seller  the text of its [class*="seller"], None when missing *)

\* The card loop with the last matching selector winning.
RECURSIVE FirstCard_Last(_)
FirstCard_Last(matches) ==
    IF matches = <<>>
    THEN [present |-> FALSE]
    ELSE IF matches[Len(matches)].present
         THEN matches[Len(matches)]
         ELSE FirstCard_Last(SubSeq(matches, 1, Len(matches) - 1))

\* The card loop: the element of the first selector that finds one.
RECURSIVE FirstCard(_)
FirstCard(matches) ==
    IF matches = <<>>
    THEN [present |-> FALSE]
    ELSE IF Head(matches).present
         THEN Head(matches)
         ELSE FirstCard(Tail(matches))

\* _extract_from_search_dom from its card loop on.
SearchDom(matches) ==
    LET product == FirstCard(matches)
    IN  _extract_from_search_dom(
            [BasePage EXCEPT !.card = IF product.present THEN product ELSE NoCard])

RECURSIVE _extract_price_html(_)
_extract_price_html(prices) ==
    IF prices = <<>>
    THEN None
    ELSE LET price == IF Head(prices) = None
                      THEN None
                      ELSE _parse_price(Head(prices))
         IN  IF price # None /\ DecimalTruthy(price)
             THEN price
             ELSE _extract_price_html(Tail(prices))

_extract_seller_html(elem) ==
    IF elem.seller = None \/ elem.seller = <<>> THEN Worten ELSE elem.seller

HtmlNoCardError == <<"Nenhum produto no HTML">>

_extract_from_search_html(matches) ==
    LET product == FirstCard(matches)
    IN  IF ~product.present
        THEN UnavailableRecord(HtmlNoCardError)
        ELSE LET href == product.href
                 price == _extract_price_html(product.prices)
             IN  [ScrapedProductDefaults EXCEPT
                    !.name = CardName(product.names, None),
                    !.url = IF ~Truthy(href)
                            THEN None
                            ELSE IF StartsWithHttp(href)
                                 THEN href
                                 ELSE BASE_URL \o href,
                    !.price = price,
                    !.seller = _extract_seller_html(product),
                    !.is_available = price # None]

SecondCard ==
    [GoodCard EXCEPT !.names = <<None, <<"B">>, None, None>>,
                     !.prices = <<None, <<"7">>, None>>]

\* What the four selectors of the DOM extractor find.
DomMatches ==
    [1..4 -> {NoCard, GoodCard, SecondCard}]
    \cup
    { [i \in 1..4 |-> IF i = k THEN c ELSE NoCard] : k \in 1..4, c \in Cards }

NoHtmlCard ==
    [present |-> FALSE, href |-> None, names |-> <<None, None, None>>,
     prices |-> <<None, None>>, seller |-> None]

GoodHtmlCard ==
    [present |-> TRUE, href |-> WidgetSlug, names |-> <<CardText, None, None>>,
     prices |-> <<<<"5">>, None>>, seller |-> None]

SecondHtmlCard ==
    [GoodHtmlCard EXCEPT !.names = <<None, <<"B">>, None>>,
                         !.prices = <<<<"f", "r", "e", "e">>, <<"7">>>>]

HtmlCards ==
    { [GoodHtmlCard EXCEPT !.href = h, !.prices = ps, !.seller = sl] :
        h \in {None, WidgetSlug, AbsoluteSlug},
        ps \in { <<None, None>>, <<<<"0">>, <<"3">>>>, <<<<"f">>, None>>,
                 <<None, <<"1", "2", ",", "5", "0", " ", "euro">>>> },
        sl \in {None, <<>>, ACME} }

\* What the three selectors of the HTML extractor find.
HtmlMatches ==
    [1..3 -> {NoHtmlCard, GoodHtmlCard, SecondHtmlCard}]
    \cup
    { [i \in 1..3 |-> IF i = k THEN c ELSE NoHtmlCard] : k \in 1..3, c \in HtmlCards }

(* Specification of the two extractors alone *)

CardsInit ==
    /\ ScraperIdle
    /\ arg \in ({"dom"} \X DomMatches) \cup ({"html"} \X HtmlMatches)
    /\ ret = None
    /\ phase = "in"

ExtractDom ==
    /\ phase = "in"
    /\ arg[1] = "dom"
    /\ ret' = SearchDom(arg[2])
    /\ phase' = "out"
    /\ UNCHANGED <<arg, svars, cvars, bvars, fvars, wvars>>

ExtractHtml ==
    /\ phase = "in"
    /\ arg[1] = "html"
    /\ ret' = _extract_from_search_html(arg[2])
    /\ phase' = "out"
    /\ UNCHANGED <<arg, svars, cvars, bvars, fvars, wvars>>

CardsNext == ExtractDom \/ ExtractHtml

SpecCards == CardsInit /\ [][CardsNext]_vars

----------------------------------------------------------------------------
(* Specification of search_product with every wait taken one pass at a time.

   Each action is one pass of the loop the call is in (or the straight-line
   code between two loops); what the browser shows in that pass is chosen
   freely.  Calls into the browser return or raise: page loads and element
   waits carry Selenium's own timeouts. *)

\* for i in range(30), _pass_cloudflare
CloudflareTries == 30
\* for _ in range(15), _search_with_selenium
CardTries == 15
\* timeout: int = 10, _wait_for_page_load, in seconds
PageLoadTimeout == 10

\* Selectors of _accept_cookies and of the card loop of
\* _extract_from_search_dom
CookieSelectors ==
    << <<"#onetrust-accept-btn-handler">>, <<"button[id*=\"accept\"]">> >>
DomCardSelectors ==
    << <<"article.product-card">>, <<".product-card">>,
       <<"[data-testid=\"product-card\"]">>, <<"article[itemtype*=\"Product\"]">> >>

\* A loop counter that goes back and forth.
Advance_Back(n) == IF n > 0 THEN n - 1 ELSE n + 1

\* The next value of a loop counter.
Advance(n) == n + 1

WaitsInit ==
    /\ ScraperInit
    /\ CallInit
    /\ PureIdle
    /\ BatchIdle
    /\ FixtureIdle
    /\ WaitIdle

\* The except clauses of _search_with_selenium, then the rest of the pass.
FetchRaises(kind) ==
    /\ step' = "next"
    /\ IF kind = "WebDriverException"
       THEN _driver_failed' = TRUE /\ _driver' = NoDriver
       ELSE UNCHANGED <<_driver_failed, _driver>>

\* search_product up to its term loop.
CallSearch ==
    /\ step \in {"idle", "returned"}
    /\ \E q \in Queries :
         /\ query' = q
         /\ search_terms' = PlanSearchTerms(q)
         /\ IF PlanSearchTerms(q) # <<>> /\ use_selenium /\ ~_driver_failed
            THEN step' = "get_driver" /\ idx' = 1
            ELSE step' = "returned" /\ idx' = 0
    /\ tries' = 0
    /\ clock' = 0
    /\ UNCHANGED <<svars, pc, attempts, fetched, result, raised, made, mapped,
                   shown, pvars, bvars, fvars>>

\* _get_driver up to _pass_cloudflare's loop.
GetDriver ==
    /\ step = "get_driver"
    /\ tries' = 0
    /\ IF _driver # NoDriver
       THEN step' = "get" /\ UNCHANGED <<_driver, _driver_failed, live>>
       ELSE IF _driver_failed
            THEN step' = "next" /\ UNCHANGED <<_driver, _driver_failed, live>>
            ELSE \E made_ \in {"uc", "selenium", "fail"} :
                    IF made_ = "fail"
                    THEN /\ _driver_failed' = TRUE
                         /\ step' = "next"
                         /\ UNCHANGED <<_driver, live>>
                    ELSE /\ _driver' = made_
                         /\ live' = live + 1
                         /\ step' = IF _cloudflare_passed THEN "get"
                                    ELSE "cloudflare"
                         /\ UNCHANGED _driver_failed
    /\ UNCHANGED <<use_selenium, _cloudflare_passed, cvars, pvars, bvars, fvars,
                   clock>>

\* One pass of _pass_cloudflare's loop, or its end.
Cloudflare ==
    /\ step = "cloudflare"
    /\ IF tries < CloudflareTries
       THEN \E title \in {"clear", "challenge", "raises"} :
               /\ _cloudflare_passed' = (title = "clear")
               /\ IF title = "challenge"
                  THEN tries' = Advance(tries) /\ UNCHANGED step
                  ELSE tries' = 0 /\ step' = "get"
       ELSE /\ step' = "get"
            /\ tries' = 0
            /\ UNCHANGED _cloudflare_passed
    /\ UNCHANGED <<use_selenium, _driver, _driver_failed, live, cvars, pvars,
                   bvars, fvars, clock>>

\* driver.get(search_url)
Get ==
    /\ step = "get"
    /\ \E outcome \in {"ok"} \cup ExcKinds :
         IF outcome = "ok"
         THEN step' = "page_load" /\ UNCHANGED <<_driver, _driver_failed>>
         ELSE FetchRaises(outcome)
    /\ clock' = 0
    /\ UNCHANGED <<use_selenium, _cloudflare_passed, live, cvars, pvars, bvars,
                   fvars, tries>>

\* One pass of _wait_for_page_load's loop, or its end: the challenge page
\* costs a sleep of a second, an exception one of half a second.
PageLoad ==
    /\ step = "page_load"
    /\ IF clock < 2 * PageLoadTimeout
       THEN \E title \in {"clear", "challenge", "raises"} :
               CASE title = "clear" -> step' = "cookies" /\ UNCHANGED clock
                 [] title = "challenge" ->
                        clock' = Advance(Advance(clock)) /\ UNCHANGED step
                 [] title = "raises" ->
                        clock' = Advance(clock) /\ UNCHANGED step
       ELSE step' = "next" /\ UNCHANGED clock
    /\ UNCHANGED <<svars, cvars, pvars, bvars, fvars, tries>>

\* One pass of _accept_cookies's loop, or its end.
Cookies ==
    /\ step = "cookies"
    /\ IF tries < Len(CookieSelectors)
       THEN \E clicked \in BOOLEAN :
               IF clicked
               THEN step' = "cards" /\ tries' = 0
               ELSE tries' = Advance(tries) /\ UNCHANGED step
       ELSE step' = "cards" /\ tries' = 0
    /\ UNCHANGED <<svars, cvars, pvars, bvars, fvars, clock>>

\* One pass of the wait for the product cards, or its end.
CardsWait ==
    /\ step = "cards"
    /\ IF tries < CardTries
       THEN \E cards \in BOOLEAN :
               IF cards
               THEN step' = "extract" /\ tries' = 0
               ELSE tries' = Advance(tries) /\ UNCHANGED step
       ELSE step' = "extract" /\ tries' = 0
    /\ UNCHANGED <<svars, cvars, pvars, bvars, fvars, clock>>

\* From reading current_url to the card loop of _extract_from_search_dom:
\* a product page, a page without results and an embedded item end the
\* pass with a record, acceptable or not.
Extract ==
    /\ step = "extract"
    /\ \E outcome \in {"accepted", "rejected", "dom"} \cup ExcKinds :
         CASE outcome = "accepted" ->
                  step' = "returned" /\ UNCHANGED <<_driver, _driver_failed>>
           [] outcome = "rejected" ->
                  step' = "next" /\ UNCHANGED <<_driver, _driver_failed>>
           [] outcome = "dom" ->
                  step' = "selectors" /\ UNCHANGED <<_driver, _driver_failed>>
           [] outcome \in ExcKinds -> FetchRaises(outcome)
    /\ UNCHANGED <<use_selenium, _cloudflare_passed, live, cvars, pvars, bvars,
                   fvars, tries, clock>>

\* One wait of the card loop of _extract_from_search_dom, or what follows
\* the loop.
Selectors ==
    /\ step = "selectors"
    /\ IF tries < Len(DomCardSelectors)
       THEN \E card \in {"found", "timeout"}, accepted \in BOOLEAN :
               IF card = "found"
               THEN /\ step' = IF accepted THEN "returned" ELSE "next"
                    /\ tries' = 0
               ELSE tries' = Advance(tries) /\ UNCHANGED step
       ELSE step' = "next" /\ tries' = 0
    /\ UNCHANGED <<svars, cvars, pvars, bvars, fvars, clock>>

\* The end of a pass of the term loop.
NextTerm ==
    /\ step = "next"
    /\ IF idx < Len(search_terms)
       THEN idx' = idx + 1 /\ step' = "get_driver"
       ELSE UNCHANGED idx /\ step' = "returned"
    /\ UNCHANGED <<svars, pc, query, search_terms, attempts, fetched, result,
                   raised, made, mapped, shown, pvars, bvars, fvars, tries,
                   clock>>

WaitsNext ==
    \/ CallSearch \/ GetDriver \/ Cloudflare \/ Get \/ PageLoad \/ Cookies
    \/ CardsWait \/ Extract \/ Selectors \/ NextTerm

\* The thread that runs the call is never stopped for good.
SpecWaits == WaitsInit /\ [][WaitsNext]_vars /\ WF_vars(WaitsNext)

----------------------------------------------------------------------------
(* The import of the spreadsheet: Command.handle (import_and_scrape) and
   ProductViewSet.import_products.

   A cell of the sheet as pandas gives it is [t, v]: "absent" (the sheet has
   no such column), "nan" (an empty cell), "int" or "str", with v the text
   str() prints.  The store is the set of rows of the products table; time
   is counted in imports. *)

CellAbsent == [t |-> "absent", v |-> <<>>]
CellNan == [t |-> "nan", v |-> <<>>]
CellInt(v) == [t |-> "int", v |-> v]
CellStr(v) == [t |-> "str", v |-> v]

\* str(row.get(column, ""))
RowStr(cell) ==
    IF cell.t = "absent"
    THEN <<>>
    ELSE IF cell.t = "nan" THEN <<"n", "a", "n">> ELSE cell.v

\* Product(original_id=..., ean=..., original_name=...) as create() stores it
CreatedProduct(id, ean, name, now) ==
    [original_id |-> id, ean |-> ean, original_name |-> name,
     worten_name |-> None, worten_url |-> None, lowest_price |-> None,
     seller_name |-> None, is_available |-> FALSE, last_scraped |-> None,
     scrape_error |-> None, created_at |-> now, updated_at |-> now]

\* update_or_create that replaces the row it finds by a new one.
update_or_create_Replace(store, id, ean, name, now) ==
    {p \in store : p.original_id # id} \cup {CreatedProduct(id, ean, name, now)}

\* Product.objects.update_or_create(original_id=id, defaults={ean, original_name}):
\* the row found gets the defaults and, from auto_now, updated_at.
update_or_create(store, id, ean, name, now) ==
    IF \E p \in store : p.original_id = id
    THEN { IF p.original_id = id
           THEN [p EXCEPT !.ean = ean, !.original_name = name,
                          !.updated_at = now]
           ELSE p : p \in store }
    ELSE store \cup {CreatedProduct(id, ean, name, now)}

\* for _, row in df.iterrows(): rows without an ID are passed over.
RECURSIVE ImportRows(_, _, _)
ImportRows(store, rows, now) ==
    IF rows = <<>>
    THEN store
    ELSE LET row == Head(rows)
             product_id == RowStr(row.ID)
         IN  ImportRows(IF product_id = <<>>
                        THEN store
                        ELSE update_or_create(store, product_id,
                                              RowStr(row.EAN), RowStr(row.Name),
                                              now),
                        Tail(rows), now)

SheetRows ==
    [ID : {CellAbsent, CellNan, CellInt(<<"1">>), CellInt(<<"2">>)},
     EAN : {CellNan, CellInt(<<"5">>)},
     Name : {CellStr(<<"t", "v">>), CellStr(DasAbc)}]

\* Sheets of at most two rows.
Sheets == { <<>> } \cup { <<a>> : a \in SheetRows }
          \cup { <<a, b>> : a \in SheetRows, b \in SheetRows }

\* A row that a scrape has filled.
ScrapedRow(id) ==
    [CreatedProduct(id, <<"9">>, Widget, 0) EXCEPT
       !.worten_name = Widget, !.worten_url = BASE_URL \o WidgetSlug,
       !.lowest_price = <<"4", "9", ".", "9">>, !.seller_name = ACME,
       !.is_available = TRUE, !.last_scraped = Now]

Stores ==
    { {}, {ScrapedRow(<<"1">>)},
      {ScrapedRow(<<"1">>), CreatedProduct(<<"2">>, <<>>, <<"t", "v">>, 0)} }

(* Specification of two imports of one sheet: arg is the sheet, ret the
   store, phase the imports made ("in", "once", "twice"). *)

ImportInit ==
    /\ ScraperIdle
    /\ arg \in Sheets
    /\ ret \in Stores
    /\ phase = "in"

\* The import section of Command.handle
ImportCommand ==
    /\ phase \in {"in", "once"}
    /\ ret' = ImportRows(ret, arg, IF phase = "in" THEN 1 ELSE 2)
    /\ phase' = IF phase = "in" THEN "once" ELSE "twice"
    /\ UNCHANGED <<arg, svars, cvars, bvars, fvars, wvars>>

\* ProductViewSet.import_products
ImportProducts ==
    /\ phase \in {"in", "once"}
    /\ ret' = ImportRows(ret, arg, IF phase = "in" THEN 1 ELSE 2)
    /\ phase' = IF phase = "in" THEN "once" ELSE "twice"
    /\ UNCHANGED <<arg, svars, cvars, bvars, fvars, wvars>>

ImportNext == ImportCommand \/ ImportProducts

SpecImport == ImportInit /\ [][ImportNext]_vars

----------------------------------------------------------------------------
(* Properties *)

\* A record has a URL or is available.
HasUrlOrAvailable(r) == r.is_available \/ (r.url # None /\ r.url # <<>>)

\* The records of the call in progress: those built in the last step,
\* those the term loop got, and the one returned.
CallRecords ==
    made \cup {attempts[i] : i \in 1..Len(attempts)}
         \cup {result[i] : i \in 1..Len(result)}

\* C1: search_product never raises: whatever the browser does (no driver,
\* driver.get raising, page_source raising, an extractor failing), no
\* exception leaves the call, and a finished call has returned a record.
C1_NeverRaises ==
    /\ ~raised
    /\ pc = "done" => Len(result) = 1

\* A finished call in which a fetch raised and the exception was turned
\* into a record.
C1_Witness ==
    /\ pc = "done"
    /\ Len(result) = 1
    /\ \E i \in 1..Len(attempts) :
         /\ attempts[i].error # None
         /\ Head(attempts[i].error) \in {"Erro Selenium: ", "Erro WebDriver: "}

\* C2: every record built on any path that has error set is not available.
C2_ErrorMeansUnavailable ==
    \A r \in CallRecords : r.error # None => r.is_available = FALSE

\* An error record of the JSON extractor, and an attempt that ended in an
\* error record.
C2_Witness ==
    /\ \E r \in made : r.error = JsonParseError /\ ~r.is_available
    /\ \E i \in 1..Len(attempts) :
         attempts[i].error # None /\ ~attempts[i].is_available

\* C3: in every record, price is absent or strictly positive.
C3_PriceAbsentOrPositive ==
    \A r \in CallRecords : r.price = None \/ IsPositive(r.price)

\* C4: a JSON item whose available flag or inStock flag is explicitly false
\* is mapped to a record that is not available.
C4_OutOfStockFlagMeansUnavailable ==
    \A i \in 1..Len(mapped) :
        (mapped[i].item.available = JFalse \/ mapped[i].item.inStock = JFalse)
            => ~mapped[i].rec.is_available

\* C5: the terms are tried in planner order, and the loop stops at the first
\* term whose record has a URL or is available: that record is returned and
\* no later term is fetched.
C5_InOrderFirstAcceptableWins ==
    pc \in {"loop", "done"} =>
        /\ Len(attempts) <= Len(search_terms)
        /\ Len(fetched) <= Len(attempts)
        /\ fetched = SubSeq(PlanSearchTerms(query), 1, Len(fetched))
        /\ \A i \in 1..(Len(attempts) - 1) : ~HasUrlOrAvailable(attempts[i])
        /\ pc = "loop" =>
              /\ idx = Len(attempts) + 1
              /\ \A i \in 1..Len(attempts) : ~HasUrlOrAvailable(attempts[i])
        /\ (pc = "done" /\ attempts # <<>>
              /\ HasUrlOrAvailable(attempts[Len(attempts)]))
             => result = <<attempts[Len(attempts)]>>

\* The first of two different terms gave a record with a URL that is not
\* available: it was returned and the second term was never fetched.
C5_Witness ==
    /\ pc = "done"
    /\ Len(search_terms) = 2
    /\ search_terms[1] # search_terms[2]
    /\ Len(attempts) = 1
    /\ attempts[1].url # None
    /\ ~attempts[1].is_available
    /\ fetched = <<search_terms[1]>>
    /\ result = <<attempts[1]>>

\* C6: when there are terms and none gives a record with a URL or
\* available, search_product returns the not-found record, whatever the
\* errors of the terms were.
C6_NotFoundWhenNoneAcceptable ==
    (/\ pc = "done"
     /\ search_terms # <<>>
     /\ \A i \in 1..Len(attempts) : ~HasUrlOrAvailable(attempts[i]))
        => result = <<[name |-> None, url |-> None, price |-> None,
                       seller |-> None, is_available |-> FALSE,
                       error |-> <<"Produto nao encontrado na Worten">>]>>

\* Two terms failed with two different errors and the not-found record
\* came back.
C6_Witness ==
    /\ pc = "done"
    /\ Len(attempts) = 2
    /\ attempts[1].error # None
    /\ attempts[2].error # None
    /\ attempts[1].error # attempts[2].error
    /\ Len(result) = 1
    /\ result[1].error = <<"Produto nao encontrado na Worten">>

\* A name that is None, empty or made of whitespace only.
IsBlank(q) == q = None \/ \A i \in 1..Len(q) : q[i] \in Whitespace

\* C7: for an empty or whitespace-only name the term list is empty, and
\* search_product returns the "no search term" record without any fetch.
C7_BlankNameNoTermNoFetch ==
    (pc \in {"loop", "done"} /\ IsBlank(query)) =>
        /\ search_terms = <<>>
        /\ pc = "done"
        /\ fetched = <<>>
        /\ result = <<[name |-> None, url |-> None, price |-> None,
                       seller |-> None, is_available |-> FALSE,
                       error |-> <<"Nenhum termo de busca informado">>]>>

\* The words of PlanWords that are neither stop words nor of length <= 2.
SignificantPlanWords == { <<"a", "b", "c">>, <<"w", "x", "y", "z">> }

ExpectedSignificant(tokens) ==
    SelectSeq(tokens, LAMBDA w : w \in SignificantPlanWords)

\* C8: for a non-blank name of any token count in which every token is a
\* stop word or has length <= 2, the term list is exactly [name]; the list
\* is empty only when the name is empty.
C8_InsignificantNameFallsBack ==
    phase = "out" =>
        /\ (arg.tokens # <<>> /\ ExpectedSignificant(arg.tokens) = <<>>)
              => ret = <<arg.text>>
        /\ ret = <<>> => arg.text = <<>>

\* C9: for a (non-empty) name with at most 5 tokens the last planned term
\* is the name itself; and when there is a significant token the first
\* planned term is the first up to 4 significant tokens joined by single
\* spaces.
C9_LastIsNameFirstIsFiltered ==
    phase = "out" =>
        /\ (arg.text # <<>> /\ Len(arg.tokens) <= 5)
              => (ret # <<>> /\ ret[Len(ret)] = arg.text)
        /\ ExpectedSignificant(arg.tokens) # <<>>
              => /\ ret # <<>>
                 /\ ret[1] = Join(Take(ExpectedSignificant(arg.tokens), 4), <<" ">>)

\* A name of 5 tokens, all significant, written with double spaces: the
\* first term keeps 4 of them, the second is the name.
C9_Witness ==
    /\ phase = "out"
    /\ Len(arg.tokens) = 5
    /\ Len(ExpectedSignificant(arg.tokens)) = 5
    /\ Len(ret) = 2
    /\ ret[2] = arg.text
    /\ Len(ret[1]) < Len(arg.text) - 5

\* The statement of C9 over every name, the empty one included: the empty
\* name has no token and no term, so it has no last term.
C9_EveryNameLastIsName ==
    phase = "out" =>
        /\ Len(arg.tokens) <= 5
              => (ret # <<>> /\ ret[Len(ret)] = arg.text)
        /\ ExpectedSignificant(arg.tokens) # <<>>
              => /\ ret # <<>>
                 /\ ret[1] = Join(Take(ExpectedSignificant(arg.tokens), 4), <<" ">>)

\* C10: _parse_price gives 12.50 for "12,50€", 1234.56 for "1.234,56",
\* 19.99 for "19.99", and None for "free", "-5" and ""; it gives None
\* whenever the text has no digit.
C10_PriceExamples ==
    phase = "out" =>
        /\ arg = <<"1", "2", ",", "5", "0", "euro">> => ret = <<"1", "2", ".", "5">>
        /\ arg = <<"1", ".", "2", "3", "4", ",", "5", "6">>
              => ret = <<"1", "2", "3", "4", ".", "5", "6">>
        /\ arg = <<"1", "9", ".", "9", "9">> => ret = <<"1", "9", ".", "9", "9">>
        /\ arg = <<"f", "r", "e", "e">> => ret = None
        /\ arg = <<"-", "5">> => ret = None
        /\ arg = <<>> => ret = None
        /\ (\A i \in 1..Len(arg) : arg[i] \notin Digit) => ret = None

\* The record of an attempt whose fetch raised.
IsFetchException(r) ==
    /\ r.error # None
    /\ Head(r.error) \in {"Erro Selenium: ", "Erro WebDriver: "}

\* C14: when the fetch for a term raises, the exception becomes an error
\* record of that attempt alone (it is not raised further and it is not
\* what the call returns), and the next term, if there is one, is fetched.
C14_FetchErrorContained ==
    pc = "done" =>
        \A i \in 1..Len(attempts) :
            IsFetchException(attempts[i]) =>
                /\ ~raised
                /\ result # <<attempts[i]>>
                /\ i < Len(search_terms) =>
                      /\ Len(attempts) > i
                      /\ attempts[i + 1].error # NoDriverError

\* C17: when no browser can be used (Selenium is switched off, or no
\* attempt of the call had a browser), a page is still fetched for every
\* candidate term (the plain HTTP fallback) before the call gives up.
C17_RequestsFallback ==
    (/\ pc = "done"
     /\ search_terms # <<>>
     /\ \/ ~use_selenium
        \/ \A i \in 1..Len(attempts) : attempts[i].error = NoDriverError)
        => fetched = search_terms

\* C19: a product-page record with neither a name nor a price does not
\* end the term loop: it is not what search_product returns.
C19_BareProductPageGoesOn ==
    \A i \in 1..Len(attempts) :
        (/\ attempts[i].url = ProductUrl
         /\ ~Truthy(attempts[i].name)
         /\ attempts[i].price = None)
            => result # <<attempts[i]>>

\* C20: for a fetched search-results page (loaded, not a product page),
\* the record of the embedded JSON is what the attempt gives whenever that
\* record has a URL or is available.
C20_JsonFirst ==
    \A i \in 1..Len(shown) :
        (/\ attempts # <<>>
         /\ ~IsFetchException(attempts[Len(attempts)])
         /\ shown[i].load
         /\ shown[i].kind = "search"
         /\ _extract_from_page_data(shown[i]) # <<>>
         /\ Acceptable(_extract_from_page_data(shown[i])[1]))
            => attempts[Len(attempts)] = _extract_from_page_data(shown[i])[1]

\* C16: the second of two calls of search_product with the same name, on
\* the same scraper and against a browser that shows the same pages (or
\* fails the same way), returns a record equal to the first call's in every
\* field, whatever the first call left in _driver, _driver_failed and
\* _cloudflare_passed.
C16_SecondCallSameRecord ==
    (run = 2 /\ pc = "done") => (~raised /\ result = first)

\* Both calls went through two terms; the first call started the browser
\* and was answered a product on the second term, the second call ran on
\* the browser kept and returned the same product.
C16_Witness ==
    /\ run = 2
    /\ pc = "done"
    /\ Len(attempts) = 2
    /\ _driver # NoDriver
    /\ result = first
    /\ Len(result) = 1
    /\ result[1].is_available

\* The endpoint returned, or an exception left it.
BatchOver == bpc \in {"ended", "aborted"}

\* A batch that iterates products and reports counts.
CountingBatch ==
    /\ endpoint \in {"handle", "scrape"}
    /\ ~(endpoint = "scrape" /\ products = <<>>)

\* C11: when a batch is over (Command.handle, scrape or scrape_single),
\* every browser its scraper started has been quit.
C11_BrowsersQuitAtBatchEnd ==
    BatchOver => live = 0

\* C12: a batch always reports its counts, and found + not_found + errors
\* is then the number of products iterated.
C12_SummaryCountsAddUp ==
    (CountingBatch /\ BatchOver) =>
        /\ summary # <<>>
        /\ summary[1].found + summary[1].not_found + summary[1].errors
             = Len(products)

\* C13: whatever failed for one product (error record, exception of the
\* search or of save()), every product of the batch has been searched and
\* saved when the batch is over.
C13_EveryProductSearchedAndSaved ==
    (CountingBatch /\ BatchOver) =>
        \A i \in 1..Len(products) :
            products[i].searched /\ products[i].saved

\* The record of an attempt whose fetch timed out: the page never left the
\* Cloudflare wait, or driver.get raised (selenium's TimeoutException is a
\* WebDriverException).
IsTimeout(r) ==
    \/ r.error = LoadTimeoutError
    \/ (r.error # None /\ Head(r.error) = "Erro WebDriver: ")

\* C15: when every fetch of a search timed out, search_product returns
\* the not-found record and has by then fetched every candidate term once.
C15_TimeoutsExhaustTerms ==
    (/\ bpc = "searching"
     /\ pc = "done"
     /\ attempts # <<>>
     /\ IsTimeout(attempts[1])
     /\ \A i \in 1..Len(attempts) :
          IsTimeout(attempts[i]) \/ attempts[i].error = NoDriverError)
        => /\ result = <<NotFoundRecord>>
           /\ fetched = search_terms

\* C18: a scrape_error a batch leaves in a product keeps at most
\* ErrorLimit characters of a message (a fixed message of the code is one
\* token).
C18_ScrapeErrorBounded ==
    \A i \in 1..Len(products) :
        products[i].scrape_error = None
            \/ Len(products[i].scrape_error) <= ErrorLimit

\* The six price fields of a JSON item in the order _get_price_from_json
\* lists them, each with whether it is there to be read: a nested field
\* when its container is an object that has it, a flat field when the item
\* has it and it is not an object.
ListedPrices(item) ==
    << [there |-> item.price.t = "dict" /\ item.price_value.t # "absent",
        value |-> item.price_value, flat |-> FALSE],
       [there |-> item.price.t = "dict" /\ item.price_current.t # "absent",
        value |-> item.price_current, flat |-> FALSE],
       [there |-> item.prices.t = "dict" /\ item.prices_current.t # "absent",
        value |-> item.prices_current, flat |-> FALSE],
       [there |-> item.currentPrice.t \notin {"absent", "dict"},
        value |-> item.currentPrice, flat |-> TRUE],
       [there |-> item.salePrice.t \notin {"absent", "dict"},
        value |-> item.salePrice, flat |-> TRUE],
       [there |-> item.price.t \notin {"absent", "dict"},
        value |-> item.price, flat |-> TRUE] >>

\* The field parses to a decimal.
ParsesAsDecimal(f) == f.there /\ Decimal(PyStr(f.value)) # InvalidOperation

\* A flat field whose value is falsy (the number zero, the empty string,
\* null, false) is passed over before any parsing.
PassedOver(f) == f.flat /\ ~JTruthy(f.value)

\* C21: the price is the value of the first field, in the listed order,
\* that parses to a decimal, flat fields with a falsy value being passed
\* over; fields that do not parse are skipped; the price is None when no
\* field is left.
C21_FirstParsablePriceWins ==
    (phase = "out" /\ arg.is_dict) =>
        LET fs == ListedPrices(arg)
            Wins(k) == ParsesAsDecimal(fs[k]) /\ ~PassedOver(fs[k])
        IN  /\ \A k \in 1..Len(fs) :
                 (Wins(k) /\ \A j \in 1..(k - 1) : ~Wins(j))
                    => ret.price = Decimal(PyStr(fs[k].value))
            /\ (\A k \in 1..Len(fs) : ~Wins(k)) => ret.price = None

\* price.value is there and does not parse, currentPrice is the number 0,
\* and the price is salePrice's 5.
C21_Witness ==
    /\ phase = "out"
    /\ arg.price = JDict
    /\ arg.price_value = JStr(<<"a", "b", "c">>)
    /\ arg.price_current = JNull
    /\ arg.prices = JAbsent
    /\ arg.currentPrice = JNum(<<"0">>)
    /\ arg.salePrice = JNum(<<"5">>)
    /\ ret.price = <<"5">>

\* The statement of C21 with no field passed over: the price is the value
\* of the first listed field that parses, the number 0 included.
C21_FirstParsableOfAllFields ==
    (phase = "out" /\ arg.is_dict) =>
        LET fs == ListedPrices(arg)
        IN  /\ \A k \in 1..Len(fs) :
                 (ParsesAsDecimal(fs[k])
                    /\ \A j \in 1..(k - 1) : ~ParsesAsDecimal(fs[j]))
                    => ret.price = Decimal(PyStr(fs[k].value))
            /\ (\A k \in 1..Len(fs) : ~ParsesAsDecimal(fs[k])) => ret.price = None

\* What product.get("slug") or product.get("url") is.
SlugOrUrl(item) == IF JTruthy(item.slug) THEN item.slug ELSE item.url

C23_NoneOnlyWithoutPayload ==
    phase = "out" =>
        /\ ret = <<>> <=> arg.payload \in {"absent", "blank", "invalid"}
        /\ (\/ arg.payload = "untraversable"
            \/ arg.payload \in {"search", "product"} /\ ~arg.item.is_dict)
              => ret # <<>> /\ ret[1].error # None

\* The first selector, in the order of the loop, that finds an element; 0
\* when none does.
FirstMatching(matches) ==
    IF \E i \in 1..Len(matches) : matches[i].present
    THEN CHOOSE i \in 1..Len(matches) :
            /\ matches[i].present
            /\ \A j \in 1..(i - 1) : ~matches[j].present
    ELSE 0

\* C24: the DOM and HTML extractors use the element of the first card
\* selector that finds one, whatever later selectors find; when no selector
\* finds an element they return a record that is not available, carries the
\* extractor's "no product" error and has every other field at its default.
C24_FirstCardSelectorWins ==
    phase = "out" =>
        LET k == FirstMatching(arg[2])
            alone == [i \in 1..Len(arg[2]) |-> IF i = k THEN arg[2][k]
                                               ELSE IF arg[1] = "dom"
                                                    THEN NoCard ELSE NoHtmlCard]
        IN  IF k = 0
            THEN /\ ~ret.is_available
                 /\ ret.error = IF arg[1] = "dom" THEN NoCardError
                                ELSE HtmlNoCardError
                 /\ ret = [ScrapedProductDefaults EXCEPT
                             !.is_available = FALSE, !.error = ret.error]
            ELSE /\ ret.error = None
                 /\ ret = IF arg[1] = "dom" THEN SearchDom(alone)
                          ELSE _extract_from_search_html(alone)
                 /\ ret.name = CardName(arg[2][k].names, None)

\* The second selector is the first to find a card, a later one finds
\* another card, and the record is of the former.
C24_Witness ==
    /\ phase = "out"
    /\ arg[1] = "dom"
    /\ arg[2] = <<NoCard, SecondCard, GoodCard, NoCard>>
    /\ ret.name = <<"B">>
    /\ ret.price = <<"7">>

\* The price of the first text, in the order of the selectors, that
\* _parse_price parses once newlines and spaces are removed; None when no
\* text parses.
RECURSIVE FirstParsedPrice(_)
FirstParsedPrice(texts) ==
    IF texts = <<>>
    THEN None
    ELSE LET price == IF Head(texts) = None
                      THEN None
                      ELSE _parse_price(Remove(Remove(Head(texts), "\n"), " "))
         IN  IF price # None THEN price ELSE FirstParsedPrice(Tail(texts))

\* C25: the price a card is given is that of the first price selector
\* whose text parses to a price: a selector that finds an element whose
\* text does not parse is passed and the later selectors are still tried.
C25_FirstParsablePriceSelectorWins ==
    (phase = "out" /\ arg[1] = "dom" /\ FirstMatching(arg[2]) # 0) =>
        ret.price = FirstParsedPrice(arg[2][FirstMatching(arg[2])].prices)

\* C26: every call of search_product returns.
C26_SearchProductTerminates ==
    (step \notin {"idle", "returned"}) ~> (step = "returned")

\* A call has returned whose last fetch waited for the page until the
\* timeout.
C26_Witness ==
    /\ step = "returned"
    /\ Len(search_terms) = 2
    /\ idx = 2
    /\ clock >= 2 * PageLoadTimeout

C28_NoBrowserLetGo ==
    /\ live <= 1
    /\ _driver = NoDriver => live = 0

\* C29: every product a batch has saved as available has no scrape_error.
C29_AvailableHasNoError ==
    \A n \in 1..Len(products) :
        (products[n].saved /\ products[n].is_available)
            => ~Truthy(products[n].scrape_error)

\* The fields of a row that an import may not touch.
Kept(p) ==
    [f \in {"original_id", "worten_name", "worten_url", "lowest_price",
            "seller_name", "is_available", "last_scraped", "scrape_error",
            "created_at"} |-> p[f]]

\* The store with the time of the last write left out.
Undated(store) == { [p EXCEPT !.updated_at = 0] : p \in store }

\* C30: an import leaves every row of the store in place with everything
\* but its ean, original_name and updated_at as it was, leaves no two rows
\* with one original_id, and a second import of the same sheet leaves the
\* store as the first did, updated_at apart.
C30_ImportKeepsScrapedFields ==
    [][phase' # phase =>
         /\ \A p \in ret : \E q \in ret' : Kept(q) = Kept(p)
         /\ \A q1, q2 \in ret' : q1.original_id = q2.original_id => q1 = q2
         /\ phase = "once" => Undated(ret') = Undated(ret)]_vars

\* A scraped row has been through two imports that renamed it, beside a
\* row the import created.
C30_Witness ==
    /\ phase = "twice"
    /\ Cardinality(ret) = 2
    /\ \E p \in ret :
          /\ p.original_id = <<"1">>
          /\ p.is_available
          /\ p.worten_name = Widget
          /\ p.original_name = <<"t", "v">>
          /\ p.ean = <<"n", "a", "n">>
          /\ p.updated_at = 2

\* The statement of C30 with no field but ean and original_name changing:
\* a second import of the same sheet leaves the store exactly as it was.
C30_ImportChangesTwoFieldsOnly ==
    [][phase' # phase =>
         /\ \A p \in ret :
               \E q \in ret' : Kept(q) = Kept(p) /\ q.updated_at = p.updated_at
         /\ \A q1, q2 \in ret' : q1.original_id = q2.original_id => q1 = q2
         /\ phase = "once" => ret' = ret]_vars

====
